---- MODULE Spec2Model ----
(***************************************************************************)
(* IPBlacklistChecker of blacklist_checker.py: a dict cache with a 24 hour *)
(* validity window under an lru_cache memoization of is_blacklisted, three *)
(* provider checks consulted in registration order, and clear_cache.       *)
(***************************************************************************)
EXTENDS Integers, Sequences, FiniteSets, TLC

\* ------------------------------------------------------------------ bounds
\* Number of distinct IP addresses the callers look up.
NumIPs == 2
\* Wall-clock time is counted in hours and advances by TickHours per Tick.
TickHours == 12
\* The clock stops advancing once it has reached MaxTime hours.
MaxTime == 24
\* An abuse score outside the percentage range a provider documents.
OverScore == 150
\* A listing frequency whose tenfold exceeds the cap of 100.
HighFrequency == 11
\* Capacity of the lru_cache memo. The program's maxsize is 10000; the model
\* keeps it below NumIPs so that lookups of other IPs evict an entry.
lru_maxsize == 1

\* --------------------------------------------------------- program constants
\* self.cache_duration = timedelta(hours=24)
cache_duration == 24

IPs == 1..NumIPs
Callers == {"c1", "c2"}
SeqCallers == {"c1"}

None == "None"
NoEntry == [present |-> FALSE]

\* self.sources, in insertion (= iteration) order
sources == <<"abuseipdb", "stopforumspam", "blocklist_de">>

Verdict(blocked, source, confidence) ==
    [blocked |-> blocked, source |-> source, confidence |-> confidence]

\* result = (False, None, 0)
NotBlacklisted == Verdict(FALSE, None, 0)

CacheEntry(v, t) == [present |-> TRUE, verdict |-> v, time |-> t]

\* --------------------------------------------------------- provider replies
\* kind: "transport" requests.get raised (connection error, timeout);
\*       "status"    a reply whose status_code is not 200;
\*       "malformed" a 200 reply whose payload response.json() cannot parse
\*                   or whose fields have the wrong type;
\*       "ok"        a 200 reply with a payload of the expected shape.
AbuseScores == {75, 85, OverScore}
Frequencies == {3, HighFrequency}

AbuseReplies ==
    {[kind |-> k, score |-> 0] : k \in {"transport", "status", "malformed"}}
    \cup {[kind |-> "ok", score |-> s] : s \in AbuseScores}

SfsReplies ==
    {[kind |-> k, appears |-> 0, frequency |-> 0] :
        k \in {"transport", "status", "malformed"}}
    \cup {[kind |-> "ok", appears |-> 0, frequency |-> 0]}
    \cup {[kind |-> "ok", appears |-> 1, frequency |-> f] : f \in Frequencies}

\* response.text of blocklist.de as a sequence of characters
TextNone == <<"o", "k">>
TextZero == <<"a", "t", "t", "a", "c", "k", "s", ":", " ", "0">>
TextThree == <<"A", "t", "t", "a", "c", "k", "s", ":", " ", "3">>
TextTen == <<"a", "t", "t", "a", "c", "k", "s", ":", " ", "1", "0">>
TextLeadingZero == <<"a", "t", "t", "a", "c", "k", "s", ":", " ", "0", "5">>
Texts == {TextNone, TextZero, TextThree, TextTen, TextLeadingZero}

BlocklistReplies ==
    {[kind |-> k, text |-> TextNone] : k \in {"transport", "status"}}
    \cup {[kind |-> "ok", text |-> x] : x \in Texts}

\* ------------------------------------------------------------ string helpers
\* str.lower() on the characters the replies use
LowerChar(c) == IF c = "A" THEN "a" ELSE c
Lower(s) == [i \in 1..Len(s) |-> LowerChar(s[i])]

\* needle in haystack
Contains(haystack, needle) ==
    \E i \in 0..(Len(haystack) - Len(needle)) :
        \A j \in 1..Len(needle) : haystack[i + j] = needle[j]

Min(a, b) == IF a < b THEN a ELSE b

\* ------------------------------------------------------------ adapter results
\* An adapter call either returns the pair (blocked, confidence) or raises.
Returns(blocked, confidence) ==
    [raised |-> FALSE, blocked |-> blocked, confidence |-> confidence]
Raises == [raised |-> TRUE, blocked |-> FALSE, confidence |-> 0]

\* Mutant: the threshold test is >= instead of >.
check_abuseipdb_AtLeast(key, reply) ==
    IF ~key THEN Returns(FALSE, 0)
    ELSE IF reply.kind = "transport" THEN Raises
    ELSE IF reply.kind = "status" THEN Returns(FALSE, 0)
    ELSE IF reply.kind = "malformed" THEN Raises
    ELSE Returns(reply.score >= 75, reply.score)

\* Mutant: the test of the credential is missing, the request is always made.
check_abuseipdb_NoKeyTest(key, reply) ==
    IF reply.kind = "transport" THEN Raises
    ELSE IF reply.kind = "status" THEN Returns(FALSE, 0)
    ELSE IF reply.kind = "malformed" THEN Raises
    ELSE Returns(reply.score > 75, reply.score)

\* Mutant: the credential is read with os.environ['ABUSEIPDB_API_KEY'], which
\* raises when it is absent.
check_abuseipdb_KeyError(key, reply) ==
    IF ~key THEN Raises
    ELSE IF reply.kind = "transport" THEN Raises
    ELSE IF reply.kind = "status" THEN Returns(FALSE, 0)
    ELSE IF reply.kind = "malformed" THEN Raises
    ELSE Returns(reply.score > 75, reply.score)

\* _check_abuseipdb(ip): key is whether ABUSEIPDB_API_KEY is set
check_abuseipdb(key, reply) ==
    IF ~key THEN Returns(FALSE, 0)
    ELSE IF reply.kind = "transport" THEN Raises
    ELSE IF reply.kind = "status" THEN Returns(FALSE, 0)
    ELSE IF reply.kind = "malformed" THEN Raises
    ELSE Returns(reply.score > 75, reply.score)

\* _check_stopforumspam(ip)
check_stopforumspam(reply) ==
    IF reply.kind = "transport" THEN Raises
    ELSE IF reply.kind = "status" THEN Returns(FALSE, 0)
    ELSE IF reply.kind = "malformed" THEN Raises
    ELSE IF reply.appears > 0
         THEN Returns(TRUE, Min(100, reply.frequency * 10))
         ELSE Returns(FALSE, 0)

AttacksMarker == <<"a", "t", "t", "a", "c", "k", "s", ":">>
AttacksZero == <<"a", "t", "t", "a", "c", "k", "s", ":", " ", "0">>

\* Mutant: the text is searched without lower-casing it first.
check_blocklist_de_CaseSensitive(reply) ==
    IF reply.kind = "transport" THEN Raises
    ELSE IF reply.kind = "status" THEN Returns(FALSE, 0)
    ELSE IF Contains(reply.text, AttacksMarker)
            /\ ~Contains(reply.text, AttacksZero)
         THEN Returns(TRUE, 80)
         ELSE Returns(FALSE, 0)

\* _check_blocklist_de(ip)
check_blocklist_de(reply) ==
    IF reply.kind = "transport" THEN Raises
    ELSE IF reply.kind = "status" THEN Returns(FALSE, 0)
    ELSE IF Contains(Lower(reply.text), AttacksMarker)
            /\ ~Contains(Lower(reply.text), AttacksZero)
         THEN Returns(TRUE, 80)
         ELSE Returns(FALSE, 0)

\* The replies the provider behind sources[i] may give
Replies(i) ==
    IF i = 1 THEN AbuseReplies
    ELSE IF i = 2 THEN SfsReplies
    ELSE BlocklistReplies

\* check_func(ip_address) for check_func = self.sources[sources[i]]
check_func(i, key, reply) ==
    IF i = 1 THEN check_abuseipdb(key, reply)
    ELSE IF i = 2 THEN check_stopforumspam(reply)
    ELSE check_blocklist_de(reply)

\* What the adapter found, as the log of one lookup records it: the kind of
\* reply ("nokey" when the credential is absent and no request is made).
Outcome(i, key, reply) == IF i = 1 /\ ~key THEN "nokey" ELSE reply.kind

\* ------------------------------------------------------------ lru_cache
\* The memo of functools.lru_cache: <<[key, result]>>, least recently used first.
MemoKeys(m) == {m[i].key : i \in DOMAIN m}
MemoIndex(m, k) == CHOOSE i \in DOMAIN m : m[i].key = k
MemoGet(m, k) == m[MemoIndex(m, k)].result
Without(m, i) == SubSeq(m, 1, i - 1) \o SubSeq(m, i + 1, Len(m))
\* a hit moves the entry to the most recently used end
MemoTouch(m, k) == Append(Without(m, MemoIndex(m, k)), m[MemoIndex(m, k)])
\* after the wrapped call returned: keep an entry made meanwhile, else add,
\* evicting the least recently used entry when the memo is full
MemoPut(m, k, r) ==
    IF k \in MemoKeys(m) THEN m
    ELSE IF Len(m) < lru_maxsize THEN Append(m, [key |-> k, result |-> r])
    ELSE Append(Tail(m), [key |-> k, result |-> r])

\* Mutant: the length is taken after the dict was cleared.
CacheLenAfterClear(c) == 0

\* len(self.cache)
CacheLen(c) == Cardinality({a \in IPs : c[a].present})

\* Mutant: the comparison is reversed.
FreshReversed(entry, t) == t - entry.time > cache_duration

\* datetime.now() - cached_time < self.cache_duration
Fresh(entry, t) == t - entry.time < cache_duration

\* ------------------------------------------------------------------ state
VARIABLES
    cache,       \* self.cache: IP -> (verdict, time of computation) or no entry
    memo,        \* the lru_cache memo of is_blacklisted
    now,         \* datetime.now(), in hours
    api_key,     \* whether ABUSEIPDB_API_KEY is set in the environment
    pc,          \* per caller: where its call stands
    ip,          \* per caller: ip_address of the lookup in progress
    idx,         \* per caller: position of the loop over self.sources
    cache_size,  \* per caller: the local cache_size of clear_cache
    ret,         \* per caller: the value the call returns
    log,         \* per caller: the adapters the lookup consulted, in order
    started,     \* per caller: the time the call was made
    computed,    \* per caller: the time the returned verdict was computed
    served,      \* per caller: what produced the verdict: "memo", "cache",
                 \* "adapters", or "" while none is produced
    removed,     \* per caller: entries the clear() of clear_cache removed
    prev,        \* per IP: verdict and computation time of the last completed
                 \* lookup since the last clear_cache
    cleared,     \* IPs cached when clear_cache ran and not looked up since
    lastwrite,   \* per IP: the caller whose lookup in progress stored the
                 \* cache entry last, "none" when there is none
    overtaken    \* per caller: a clear() emptied the dict while its lookup
                 \* stood between the cache check and the store

vars == <<cache, memo, now, api_key, pc, ip, idx, cache_size, ret, log,
          started, computed, served, removed, prev, cleared, lastwrite,
          overtaken>>

NoIP == 0
Pending == [type |-> "pending"]
\* a verdict tuple returned by is_blacklisted
VerdictValue(v) == [type |-> "verdict", value |-> v]
\* Python's None, returned by a function that ends without a return statement
NoneValue == [type |-> "None"]

Init ==
    /\ cache = [a \in IPs |-> NoEntry]
    /\ memo = <<>>
    /\ now = 0
    /\ api_key \in BOOLEAN
    /\ pc = [t \in Callers |-> "idle"]
    /\ ip = [t \in Callers |-> NoIP]
    /\ idx = [t \in Callers |-> 0]
    /\ cache_size = [t \in Callers |-> 0]
    /\ ret = [t \in Callers |-> Pending]
    /\ log = [t \in Callers |-> <<>>]
    /\ started = [t \in Callers |-> 0]
    /\ computed = [t \in Callers |-> 0]
    /\ served = [t \in Callers |-> ""]
    /\ removed = [t \in Callers |-> 0]
    /\ prev = [a \in IPs |-> NoEntry]
    /\ cleared = {}
    /\ lastwrite = [a \in IPs |-> "none"]
    /\ overtaken = [t \in Callers |-> FALSE]

\* ------------------------------------------------------------ is_blacklisted
\* The call of the lru_cache wrapper: a memo hit returns the remembered result
\* without running the body; a miss runs the body.
Call(t, a) ==
    /\ pc[t] = "idle"
    /\ ip' = [ip EXCEPT ![t] = a]
    /\ started' = [started EXCEPT ![t] = now]
    /\ IF a \in MemoKeys(memo)
       THEN /\ memo' = MemoTouch(memo, a)
            /\ ret' = [ret EXCEPT ![t] = VerdictValue(MemoGet(memo, a))]
            /\ computed' = [computed EXCEPT ![t] =
                              IF prev[a].present THEN prev[a].time ELSE now]
            /\ served' = [served EXCEPT ![t] = "memo"]
            /\ pc' = [pc EXCEPT ![t] = "done"]
       ELSE /\ pc' = [pc EXCEPT ![t] = "check"]
            /\ UNCHANGED <<memo, ret, computed, served>>
    /\ UNCHANGED <<cache, now, api_key, idx, cache_size, log, removed, prev, cleared, overtaken, lastwrite>>

\* if cache_key in self.cache:
CacheCheck(t) ==
    /\ pc[t] = "check"
    /\ IF cache[ip[t]].present
       THEN pc' = [pc EXCEPT ![t] = "read"] /\ UNCHANGED idx
       ELSE pc' = [pc EXCEPT ![t] = "query"] /\ idx' = [idx EXCEPT ![t] = 1]
    /\ UNCHANGED <<cache, memo, now, api_key, ip, cache_size, ret, log,
                   started, computed, served, removed, prev, cleared, overtaken, lastwrite>>

\* Mutant: a hit re-stamps the entry with the time of the read.
CacheReadRefresh(t) ==
    /\ pc[t] = "read"
    /\ cache[ip[t]].present
    /\ IF Fresh(cache[ip[t]], now)
       THEN /\ ret' = [ret EXCEPT ![t] = VerdictValue(cache[ip[t]].verdict)]
            /\ cache' = [cache EXCEPT ![ip[t]] = CacheEntry(cache[ip[t]].verdict, now)]
            /\ computed' = [computed EXCEPT ![t] = cache[ip[t]].time]
            /\ served' = [served EXCEPT ![t] = "cache"]
            /\ pc' = [pc EXCEPT ![t] = "wrapper"]
            /\ UNCHANGED idx
       ELSE /\ pc' = [pc EXCEPT ![t] = "query"]
            /\ idx' = [idx EXCEPT ![t] = 1]
            /\ UNCHANGED <<cache, ret, computed, served>>
    /\ UNCHANGED <<memo, now, api_key, ip, cache_size, log, started,
                   removed, prev, cleared, overtaken, lastwrite>>

\* cached_data, cached_time = self.cache[cache_key]; return it while fresh
CacheRead(t) ==
    /\ pc[t] = "read"
    /\ cache[ip[t]].present
    /\ IF Fresh(cache[ip[t]], now)
       THEN /\ ret' = [ret EXCEPT ![t] = VerdictValue(cache[ip[t]].verdict)]
            /\ computed' = [computed EXCEPT ![t] = cache[ip[t]].time]
            /\ served' = [served EXCEPT ![t] = "cache"]
            /\ pc' = [pc EXCEPT ![t] = "wrapper"]
            /\ UNCHANGED idx
       ELSE /\ pc' = [pc EXCEPT ![t] = "query"]
            /\ idx' = [idx EXCEPT ![t] = 1]
            /\ UNCHANGED <<ret, computed, served>>
    /\ UNCHANGED <<cache, memo, now, api_key, ip, cache_size, log, started,
                   removed, prev, cleared, overtaken, lastwrite>>

\* with the reply the adapter received, if it made a request
LogEntry(i, key, reply) ==
    [source |-> sources[i], outcome |-> Outcome(i, key, reply),
     reply |-> IF i = 1 /\ ~key THEN [kind |-> "none"] ELSE reply,
     result |-> check_func(i, key, reply)]

\* Mutant: a block is stored but the loop goes on to the adapters after it.
QueryStepNoShortCircuit(t, reply) ==
    LET i == idx[t]
        r == check_func(i, api_key, reply)
        hit == ~r.raised /\ r.blocked
    IN  /\ log' = [log EXCEPT ![t] = Append(@, LogEntry(i, api_key, reply))]
        /\ IF hit
           THEN /\ ret' = [ret EXCEPT ![t] =
                             VerdictValue(Verdict(TRUE, sources[i], r.confidence))]
                /\ cache' = [cache EXCEPT ![ip[t]] =
                               CacheEntry(Verdict(TRUE, sources[i], r.confidence), now)]
                /\ lastwrite' = [lastwrite EXCEPT ![ip[t]] = t]
                /\ computed' = [computed EXCEPT ![t] = now]
                /\ served' = [served EXCEPT ![t] = "adapters"]
           ELSE UNCHANGED <<ret, cache, computed, served, lastwrite>>
        /\ IF i < Len(sources)
           THEN idx' = [idx EXCEPT ![t] = i + 1] /\ UNCHANGED pc
           ELSE /\ pc' = [pc EXCEPT ![t] =
                            IF hit \/ ret[t].type = "verdict" THEN "wrapper" ELSE "store"]
                /\ UNCHANGED idx

\* Mutant: when an adapter raises, the loop over the adapters starts again.
QueryStepRetry(t, reply) ==
    LET i == idx[t]
        r == check_func(i, api_key, reply)
    IN  IF r.raised
        THEN /\ log' = [log EXCEPT ![t] = <<>>]
             /\ idx' = [idx EXCEPT ![t] = 1]
             /\ UNCHANGED <<pc, ret, cache, computed, served, lastwrite>>
        ELSE /\ log' = [log EXCEPT ![t] = Append(@, LogEntry(i, api_key, reply))]
             /\ IF r.blocked
                THEN /\ ret' = [ret EXCEPT ![t] =
                                  VerdictValue(Verdict(TRUE, sources[i], r.confidence))]
                     /\ cache' = [cache EXCEPT ![ip[t]] =
                                    CacheEntry(Verdict(TRUE, sources[i], r.confidence), now)]
                     /\ lastwrite' = [lastwrite EXCEPT ![ip[t]] = t]
                     /\ computed' = [computed EXCEPT ![t] = now]
                     /\ served' = [served EXCEPT ![t] = "adapters"]
                     /\ pc' = [pc EXCEPT ![t] = "wrapper"]
                     /\ UNCHANGED idx
                ELSE /\ IF i < Len(sources)
                        THEN idx' = [idx EXCEPT ![t] = i + 1] /\ UNCHANGED pc
                        ELSE pc' = [pc EXCEPT ![t] = "store"] /\ UNCHANGED idx
                     /\ UNCHANGED <<ret, cache, computed, served, lastwrite>>

\* Mutant: no except clause, an adapter's exception ends the lookup.
QueryStepNoExcept(t, reply) ==
    LET i == idx[t]
        r == check_func(i, api_key, reply)
    IN  /\ log' = [log EXCEPT ![t] = Append(@, LogEntry(i, api_key, reply))]
        /\ IF r.raised
           THEN /\ ret' = [ret EXCEPT ![t] = [type |-> "error"]]
                /\ pc' = [pc EXCEPT ![t] = "error"]
                /\ UNCHANGED <<idx, cache, computed, served, lastwrite>>
           ELSE IF r.blocked
           THEN /\ ret' = [ret EXCEPT ![t] =
                             VerdictValue(Verdict(TRUE, sources[i], r.confidence))]
                /\ cache' = [cache EXCEPT ![ip[t]] =
                               CacheEntry(Verdict(TRUE, sources[i], r.confidence), now)]
                /\ lastwrite' = [lastwrite EXCEPT ![ip[t]] = t]
                /\ computed' = [computed EXCEPT ![t] = now]
                /\ served' = [served EXCEPT ![t] = "adapters"]
                /\ pc' = [pc EXCEPT ![t] = "wrapper"]
                /\ UNCHANGED idx
           ELSE /\ IF i < Len(sources)
                   THEN idx' = [idx EXCEPT ![t] = i + 1] /\ UNCHANGED pc
                   ELSE pc' = [pc EXCEPT ![t] = "store"] /\ UNCHANGED idx
                /\ UNCHANGED <<ret, cache, computed, served, lastwrite>>

\* One pass of the loop over self.sources.items(): the try block with the
\* check, the store and return on a block, and the except clause.
QueryStep(t, reply) ==
    LET i == idx[t]
        r == check_func(i, api_key, reply)
    IN  /\ log' = [log EXCEPT ![t] = Append(@, LogEntry(i, api_key, reply))]
        /\ IF ~r.raised /\ r.blocked
           THEN /\ ret' = [ret EXCEPT ![t] =
                             VerdictValue(Verdict(TRUE, sources[i], r.confidence))]
                /\ cache' = [cache EXCEPT ![ip[t]] =
                               CacheEntry(Verdict(TRUE, sources[i], r.confidence), now)]
                /\ lastwrite' = [lastwrite EXCEPT ![ip[t]] = t]
                /\ computed' = [computed EXCEPT ![t] = now]
                /\ served' = [served EXCEPT ![t] = "adapters"]
                /\ pc' = [pc EXCEPT ![t] = "wrapper"]
                /\ UNCHANGED idx
           ELSE /\ IF i < Len(sources)
                   THEN idx' = [idx EXCEPT ![t] = i + 1] /\ UNCHANGED pc
                   ELSE pc' = [pc EXCEPT ![t] = "store"] /\ UNCHANGED idx
                /\ UNCHANGED <<ret, cache, computed, served, lastwrite>>

Query(t) ==
    /\ pc[t] = "query"
    /\ \E reply \in Replies(idx[t]) : QueryStep(t, reply)
    /\ UNCHANGED <<memo, now, api_key, ip, cache_size, started, removed, prev, cleared, overtaken>>

\* Mutant: only blocking verdicts are cached, a clean one is returned unstored.
StoreNotCached(t) ==
    /\ pc[t] = "store"
    /\ ret' = [ret EXCEPT ![t] = VerdictValue(NotBlacklisted)]
    /\ computed' = [computed EXCEPT ![t] = now]
    /\ served' = [served EXCEPT ![t] = "adapters"]
    /\ pc' = [pc EXCEPT ![t] = "wrapper"]
    /\ UNCHANGED <<cache, memo, now, api_key, ip, idx, cache_size, log, started,
                   removed, prev, cleared, overtaken, lastwrite>>

\* Mutant: the non-blocking verdict carries the score of the first adapter.
StoreLastConfidence(t) ==
    LET v == Verdict(FALSE, None, log[t][1].result.confidence)
    IN  /\ pc[t] = "store"
        /\ ret' = [ret EXCEPT ![t] = VerdictValue(v)]
        /\ cache' = [cache EXCEPT ![ip[t]] = CacheEntry(v, now)]
        /\ lastwrite' = [lastwrite EXCEPT ![ip[t]] = t]
        /\ computed' = [computed EXCEPT ![t] = now]
        /\ served' = [served EXCEPT ![t] = "adapters"]
        /\ pc' = [pc EXCEPT ![t] = "wrapper"]
        /\ UNCHANGED <<memo, now, api_key, ip, idx, cache_size, log, started,
                       removed, prev, cleared, overtaken>>

\* Mutant: the non-blocking verdict names the last adapter consulted.
StoreNamesSource(t) ==
    LET v == Verdict(FALSE, log[t][Len(log[t])].source, 0)
    IN  /\ pc[t] = "store"
        /\ ret' = [ret EXCEPT ![t] = VerdictValue(v)]
        /\ cache' = [cache EXCEPT ![ip[t]] = CacheEntry(v, now)]
        /\ lastwrite' = [lastwrite EXCEPT ![ip[t]] = t]
        /\ computed' = [computed EXCEPT ![t] = now]
        /\ served' = [served EXCEPT ![t] = "adapters"]
        /\ pc' = [pc EXCEPT ![t] = "wrapper"]
        /\ UNCHANGED <<memo, now, api_key, ip, idx, cache_size, log, started,
                       removed, prev, cleared, overtaken>>

\* Mutant: the store keeps an entry that is already there (setdefault).
StoreIfAbsent(t) ==
    /\ pc[t] = "store"
    /\ ret' = [ret EXCEPT ![t] = VerdictValue(NotBlacklisted)]
    /\ cache' = [cache EXCEPT ![ip[t]] =
                   IF @.present THEN @ ELSE CacheEntry(NotBlacklisted, now)]
    /\ lastwrite' = [lastwrite EXCEPT ![ip[t]] = t]
    /\ computed' = [computed EXCEPT ![t] = now]
    /\ served' = [served EXCEPT ![t] = "adapters"]
    /\ pc' = [pc EXCEPT ![t] = "wrapper"]
    /\ UNCHANGED <<memo, now, api_key, ip, idx, cache_size, log, started,
                   removed, prev, cleared, overtaken>>

\* result = (False, None, 0); self.cache[cache_key] = (result, datetime.now())
Store(t) ==
    /\ pc[t] = "store"
    /\ ret' = [ret EXCEPT ![t] = VerdictValue(NotBlacklisted)]
    /\ cache' = [cache EXCEPT ![ip[t]] = CacheEntry(NotBlacklisted, now)]
    /\ lastwrite' = [lastwrite EXCEPT ![ip[t]] = t]
    /\ computed' = [computed EXCEPT ![t] = now]
    /\ served' = [served EXCEPT ![t] = "adapters"]
    /\ pc' = [pc EXCEPT ![t] = "wrapper"]
    /\ UNCHANGED <<memo, now, api_key, ip, idx, cache_size, log, started,
                   removed, prev, cleared, overtaken>>

\* The lru_cache wrapper after the body returned: remember the result.
WrapperReturn(t) ==
    /\ pc[t] = "wrapper"
    /\ memo' = MemoPut(memo, ip[t], ret[t].value)
    /\ pc' = [pc EXCEPT ![t] = "done"]
    /\ UNCHANGED <<cache, now, api_key, ip, idx, cache_size, ret, log, started,
                   computed, served, removed, prev, cleared, overtaken, lastwrite>>

\* The caller takes the verdict.
Return(t) ==
    /\ pc[t] = "done"
    /\ prev' = [prev EXCEPT ![ip[t]] = CacheEntry(ret[t].value, computed[t])]
    /\ cleared' = cleared \ {ip[t]}
    /\ lastwrite' = [a \in IPs |-> IF lastwrite[a] = t THEN "none" ELSE lastwrite[a]]
    /\ pc' = [pc EXCEPT ![t] = "idle"]
    /\ ip' = [ip EXCEPT ![t] = NoIP]
    /\ idx' = [idx EXCEPT ![t] = 0]
    /\ ret' = [ret EXCEPT ![t] = Pending]
    /\ log' = [log EXCEPT ![t] = <<>>]
    /\ started' = [started EXCEPT ![t] = 0]
    /\ computed' = [computed EXCEPT ![t] = 0]
    /\ served' = [served EXCEPT ![t] = ""]
    /\ overtaken' = [overtaken EXCEPT ![t] = FALSE]
    /\ UNCHANGED <<cache, memo, now, api_key, cache_size, removed>>

\* ------------------------------------------------------------ clear_cache
\* cache_size = len(self.cache)
ClearLen(t) ==
    /\ pc[t] = "idle"
    /\ cache_size' = [cache_size EXCEPT ![t] = CacheLen(cache)]
    /\ pc' = [pc EXCEPT ![t] = "clear_dict"]
    /\ UNCHANGED <<cache, memo, now, api_key, ip, idx, ret, log, started,
                   computed, served, removed, prev, cleared, overtaken, lastwrite>>

\* Mutant: clear() keeps the entry of an IP that a lookup is working on.
ClearDictSparesBusy(t) ==
    LET busy == {ip[u] : u \in {v \in Callers : pc[v] \in {"query", "store", "wrapper"}}}
    IN  /\ pc[t] = "clear_dict"
        /\ removed' = [removed EXCEPT ![t] =
                          Cardinality({a \in IPs \ busy : cache[a].present})]
        /\ cleared' = cleared \cup {a \in IPs \ busy : cache[a].present}
        /\ lastwrite' = [a \in IPs |-> IF a \in busy THEN lastwrite[a] ELSE "none"]
        /\ prev' = [a \in IPs |-> IF a \in busy THEN prev[a] ELSE NoEntry]
        /\ cache' = [a \in IPs |-> IF a \in busy THEN cache[a] ELSE NoEntry]
        /\ overtaken' = [u \in Callers |->
                            overtaken[u] \/ pc[u] \in {"query", "store"}]
        /\ pc' = [pc EXCEPT ![t] = "clear_lru"]
        /\ UNCHANGED <<memo, now, api_key, ip, idx, cache_size, ret, log, started,
                       computed, served>>

\* self.cache.clear()
ClearDict(t) ==
    /\ pc[t] = "clear_dict"
    /\ removed' = [removed EXCEPT ![t] = Cardinality({a \in IPs : cache[a].present})]
    /\ cleared' = cleared \cup {a \in IPs : cache[a].present}
    /\ lastwrite' = [a \in IPs |-> "none"]
    /\ prev' = [a \in IPs |-> NoEntry]
    /\ cache' = [a \in IPs |-> NoEntry]
    /\ overtaken' = [u \in Callers |->
                        overtaken[u] \/ pc[u] \in {"query", "store"}]
    /\ pc' = [pc EXCEPT ![t] = "clear_lru"]
    /\ UNCHANGED <<memo, now, api_key, ip, idx, cache_size, ret, log, started,
                   computed, served>>

\* Mutant: clear_cache without self.is_blacklisted.cache_clear().
ClearLruForgotten(t) ==
    /\ pc[t] = "clear_lru"
    /\ ret' = [ret EXCEPT ![t] = NoneValue]
    /\ pc' = [pc EXCEPT ![t] = "cleared"]
    /\ UNCHANGED <<cache, memo, now, api_key, ip, idx, cache_size, log, started,
                   computed, served, removed, prev, cleared, overtaken, lastwrite>>

\* self.is_blacklisted.cache_clear(); the log line; the implicit return None
ClearLru(t) ==
    /\ pc[t] = "clear_lru"
    /\ memo' = <<>>
    /\ ret' = [ret EXCEPT ![t] = NoneValue]
    /\ pc' = [pc EXCEPT ![t] = "cleared"]
    /\ UNCHANGED <<cache, now, api_key, ip, idx, cache_size, log, started,
                   computed, served, removed, prev, cleared, overtaken, lastwrite>>

\* The caller takes the return value of clear_cache.
ClearReturn(t) ==
    /\ pc[t] = "cleared"
    /\ pc' = [pc EXCEPT ![t] = "idle"]
    /\ ret' = [ret EXCEPT ![t] = Pending]
    /\ cache_size' = [cache_size EXCEPT ![t] = 0]
    /\ removed' = [removed EXCEPT ![t] = 0]
    /\ UNCHANGED <<cache, memo, now, api_key, ip, idx, log, started, computed,
                   served, prev, cleared, overtaken, lastwrite>>

\* ------------------------------------------------------------ environment
\* Wall-clock time passes.
Tick ==
    /\ now + TickHours <= MaxTime
    /\ now' = now + TickHours
    /\ UNCHANGED <<cache, memo, api_key, pc, ip, idx, cache_size, ret, log,
                   started, computed, served, removed, prev, cleared, overtaken, lastwrite>>

\* One caller: calls follow one another and never overlap.
Next ==
    \/ \E t \in SeqCallers, a \in IPs : Call(t, a)
    \/ \E t \in SeqCallers : CacheCheck(t)
    \/ \E t \in SeqCallers : CacheRead(t)
    \/ \E t \in SeqCallers : Query(t)
    \/ \E t \in SeqCallers : Store(t)
    \/ \E t \in SeqCallers : WrapperReturn(t)
    \/ \E t \in SeqCallers : Return(t)
    \/ \E t \in SeqCallers : ClearLen(t)
    \/ \E t \in SeqCallers : ClearDict(t)
    \/ \E t \in SeqCallers : ClearLru(t)
    \/ \E t \in SeqCallers : ClearReturn(t)
    \/ Tick

Spec == Init /\ [][Next]_vars

\* ------------------------------------------------------------ threads
\* cached_data, cached_time = self.cache[cache_key] when another thread's
\* clear_cache emptied the dict after the membership test: KeyError.
CacheReadKeyError(t) ==
    /\ pc[t] = "read"
    /\ ~cache[ip[t]].present
    /\ ret' = [ret EXCEPT ![t] = [type |-> "error"]]
    /\ pc' = [pc EXCEPT ![t] = "raised"]
    /\ UNCHANGED <<cache, memo, now, api_key, ip, idx, cache_size, log, started,
                   computed, served, removed, prev, cleared, overtaken, lastwrite>>

\* The exception leaves is_blacklisted and its lru_cache wrapper, which
\* remembers nothing for a call that raised.
Raise(t) ==
    /\ pc[t] = "raised"
    /\ pc' = [pc EXCEPT ![t] = "idle"]
    /\ ip' = [ip EXCEPT ![t] = NoIP]
    /\ idx' = [idx EXCEPT ![t] = 0]
    /\ ret' = [ret EXCEPT ![t] = Pending]
    /\ log' = [log EXCEPT ![t] = <<>>]
    /\ started' = [started EXCEPT ![t] = 0]
    /\ computed' = [computed EXCEPT ![t] = 0]
    /\ served' = [served EXCEPT ![t] = ""]
    /\ overtaken' = [overtaken EXCEPT ![t] = FALSE]
    /\ UNCHANGED <<cache, memo, now, api_key, cache_size, removed, prev, cleared,
                   lastwrite>>

\* The address the concurrent callers contend for.
ConcIPs == {1}

\* The providers' replies by class: per provider a failed request, a clean
\* answer and a listing.
CoarseReplies(i) ==
    IF i = 1
    THEN {r \in AbuseReplies :
            r.kind = "transport" \/ (r.kind = "ok" /\ r.score \in {75, 85})}
    ELSE IF i = 2
    THEN {r \in SfsReplies :
            r.kind = "transport" \/ (r.kind = "ok" /\ r.frequency \in {0, 3})}
    ELSE {r \in BlocklistReplies :
            r.kind = "transport" \/ (r.kind = "ok" /\ r.text \in {TextZero, TextThree})}

CoarseQuery(t) ==
    /\ pc[t] = "query"
    /\ \E reply \in CoarseReplies(idx[t]) : QueryStep(t, reply)
    /\ UNCHANGED <<memo, now, api_key, ip, cache_size, started, removed, prev,
                   cleared, overtaken>>

\* Several threads call the shared instance: their calls interleave
\* statement by statement, within a span too short for the clock to matter.
ConcNext ==
    \/ \E t \in Callers, a \in ConcIPs : Call(t, a)
    \/ \E t \in Callers : CacheCheck(t)
    \/ \E t \in Callers : CacheRead(t)
    \/ \E t \in Callers : CacheReadKeyError(t)
    \/ \E t \in Callers : Raise(t)
    \/ \E t \in Callers : CoarseQuery(t)
    \/ \E t \in Callers : Store(t)
    \/ \E t \in Callers : WrapperReturn(t)
    \/ \E t \in Callers : Return(t)
    \/ \E t \in Callers : ClearLen(t)
    \/ \E t \in Callers : ClearDict(t)
    \/ \E t \in Callers : ClearLru(t)
    \/ \E t \in Callers : ClearReturn(t)

ConcSpec == Init /\ [][ConcNext]_vars

\* A caller inside is_blacklisted goes on executing it: the interpreter runs
\* the next statement, and requests.get(..., timeout=5) ends with a reply,
\* an error or a timeout.
LookupProgress ==
    \E t \in SeqCallers :
        CacheCheck(t) \/ CacheRead(t) \/ CoarseQuery(t) \/ Store(t) \/ WrapperReturn(t)

\* One caller, as in Next, with the providers' replies taken by class.
LiveNext ==
    \/ \E t \in SeqCallers, a \in IPs : Call(t, a)
    \/ \E t \in SeqCallers : CacheCheck(t)
    \/ \E t \in SeqCallers : CacheRead(t)
    \/ \E t \in SeqCallers : CoarseQuery(t)
    \/ \E t \in SeqCallers : Store(t)
    \/ \E t \in SeqCallers : WrapperReturn(t)
    \/ \E t \in SeqCallers : Return(t)
    \/ \E t \in SeqCallers : ClearLen(t)
    \/ \E t \in SeqCallers : ClearDict(t)
    \/ \E t \in SeqCallers : ClearLru(t)
    \/ \E t \in SeqCallers : ClearReturn(t)
    \/ Tick

LiveSpec == Init /\ [][LiveNext]_vars /\ WF_vars(LookupProgress)

\* ------------------------------------------------------------------ claims
\* The registration order the claims name.
AdapterOrder == <<"abuseipdb", "stopforumspam", "blocklist_de">>
AdapterNames == {"abuseipdb", "stopforumspam", "blocklist_de"}

\* The adapter consulted i-th in t's lookup reported blocked=true.
Blocking(t, i) == ~log[t][i].result.raised /\ log[t][i].result.blocked
\* t's lookup ran the body past the cache check and consulted adapters.
Queried(t) == log[t] # <<>>

\* C1: first-match-wins. In every lookup that misses the cache the adapters
\* are consulted in the order abuseipdb, stopforumspam, blocklist_de; none is
\* consulted after one that reported blocked=true; and the verdict returned
\* is blocked exactly when the last adapter consulted reported a block, and
\* then names that adapter and carries its confidence.
FirstMatchWins ==
    \A t \in Callers :
        /\ Len(log[t]) <= Len(AdapterOrder)
        /\ \A i \in DOMAIN log[t] :
            /\ log[t][i].source = AdapterOrder[i]
            /\ i < Len(log[t]) => ~Blocking(t, i)
        /\ (pc[t] = "done" /\ Queried(t)) =>
            LET n == Len(log[t]) IN
            IF Blocking(t, n)
            THEN ret[t] = VerdictValue([blocked |-> TRUE,
                                        source |-> AdapterOrder[n],
                                        confidence |-> log[t][n].result.confidence])
            ELSE ~ret[t].value.blocked

\* A non-blocking, B blocking: the verdict names B, C was not consulted.
FirstMatchWinsWitness ==
    \E t \in Callers :
        /\ pc[t] = "done"
        /\ Len(log[t]) = 2
        /\ ~Blocking(t, 1)
        /\ Blocking(t, 2)
        /\ ret[t].value.source = "stopforumspam"
        /\ ret[t].value.confidence = 30

\* C2: idempotence within the window. When a lookup for an IP completes less
\* than 24 hours after the verdict of the previous completed lookup for that
\* IP was computed, with no clear_cache in between, it returns the same
\* verdict and has consulted no adapter.
IdempotentWithinWindow ==
    \A t \in Callers :
        (/\ pc[t] = "done"
         /\ prev[ip[t]].present
         /\ now - prev[ip[t]].time < 24)
        => /\ ret[t] = VerdictValue(prev[ip[t]].verdict)
           /\ ~Queried(t)

\* A repeated lookup, made later within the window, after the memo entry of
\* the IP was evicted by a lookup for another IP: the dict cache serves it.
IdempotentWithinWindowWitness ==
    \E t \in Callers :
        /\ pc[t] = "done"
        /\ prev[ip[t]].present
        /\ now - prev[ip[t]].time < 24
        /\ started[t] > prev[ip[t]].time
        /\ served[t] = "cache"
        /\ ret[t] = VerdictValue(prev[ip[t]].verdict)
        /\ ~Queried(t)

\* C3: cache expiry. A lookup for an IP made 24 hours or more after the
\* verdict of the previous completed lookup for that IP was computed
\* consults the adapters again.
ExpiredEntryIsRecomputed ==
    \A t \in Callers :
        (/\ pc[t] = "done"
         /\ prev[ip[t]].present
         /\ started[t] - prev[ip[t]].time >= 24)
        => Queried(t)

\* C4 as claimed: clear_cache() returns the number of entries it removed.
ClearReturnsCount ==
    \A t \in Callers :
        pc[t] = "cleared" =>
            /\ ret[t].type = "int"
            /\ ret[t].value = removed[t]

\* C4 as the code has it: clear_cache() returns None; the count it took for
\* its log line equals the number of entries its clear() removed.
ClearLogsCount ==
    \A t \in Callers :
        pc[t] = "cleared" =>
            /\ ret[t] = [type |-> "None"]
            /\ cache_size[t] = removed[t]

ClearLogsCountWitness ==
    \E t \in Callers : pc[t] = "cleared" /\ removed[t] = 2 /\ cache_size[t] = 2

\* C5: when clear_cache() has completed, no IP has a cache entry or a
\* remembered result, and the next lookup for an IP that was cached when the
\* clear ran consults the adapters.
ClearForgetsEverything ==
    \A t \in Callers :
        /\ pc[t] = "cleared" =>
            /\ \A a \in IPs : ~cache[a].present
            /\ memo = <<>>
        /\ (pc[t] = "done" /\ ip[t] \in cleared) => Queried(t)

\* The lookup after the clear is made less than 24 hours after time 0, the
\* earliest time the cleared verdict can have been computed.
ClearForgetsEverythingWitness ==
    \E t \in Callers :
        /\ pc[t] = "done"
        /\ ip[t] \in cleared
        /\ now < 24
        /\ Queried(t)

\* C6: a lookup that consulted the adapters and found none blocking (each
\* skipped, answered non-blocking or non-success, or raised) returns
\* (False, None, 0).
NoBlockGivesClean ==
    \A t \in Callers :
        (/\ pc[t] = "done"
         /\ Queried(t)
         /\ \A i \in DOMAIN log[t] : ~Blocking(t, i))
        => ret[t] = VerdictValue([blocked |-> FALSE, source |-> "None",
                                  confidence |-> 0])

\* abuseipdb answered a non-blocking score of 75, the other two failed.
NoBlockGivesCleanWitness ==
    \E t \in Callers :
        /\ pc[t] = "done"
        /\ Len(log[t]) = 3
        /\ log[t][1].outcome = "ok" /\ log[t][1].result.confidence = 75
        /\ log[t][2].result.raised
        /\ log[t][3].result.raised
        /\ ret[t].value.confidence = 0

\* C7: a completed lookup has returned a verdict triple and never an error,
\* and a lookup leaves the loop over the adapters only after a block or
\* after the last adapter, so a failed adapter does not end it.
WellFormed(v) ==
    /\ v.blocked \in BOOLEAN
    /\ v.source \in AdapterNames \cup {"None"}
    /\ v.confidence \in Int

NoAdapterFailureSurfaces ==
    \A t \in Callers :
        /\ pc[t] = "done" => (ret[t].type = "verdict" /\ WellFormed(ret[t].value))
        /\ (pc[t] \in {"store", "wrapper", "done"} /\ Queried(t)) =>
            \/ Len(log[t]) = Len(AdapterOrder)
            \/ Blocking(t, Len(log[t]))
        /\ pc[t] # "error"

\* The first adapter raised, the second gave a malformed payload, the third
\* was still consulted and blocked.
NoAdapterFailureSurfacesWitness ==
    \E t \in Callers :
        /\ pc[t] = "done"
        /\ Len(log[t]) = 3
        /\ log[t][1].outcome = "transport" /\ log[t][1].result.raised
        /\ log[t][2].outcome = "malformed" /\ log[t][2].result.raised
        /\ ret[t].value.source = "blocklist_de"

\* C8 as claimed: no adapter call raises; on a transport failure, a
\* malformed reply or a missing credential it returns (False, 0).
AdaptersNeverRaise ==
    \A t \in Callers : \A i \in DOMAIN log[t] :
        /\ ~log[t][i].result.raised
        /\ log[t][i].outcome \in {"transport", "malformed", "nokey"} =>
            (~log[t][i].result.blocked /\ log[t][i].result.confidence = 0)

\* C8 as the code has it: an adapter returns (False, 0) itself for a missing
\* credential and for a non-success status; on a transport failure or a
\* malformed reply it raises, and the lookup goes on to the next adapter and
\* ends with a verdict.
AdapterFailuresCaughtByAggregator ==
    \A t \in Callers :
        /\ \A i \in DOMAIN log[t] :
            /\ log[t][i].outcome \in {"nokey", "status"} =>
                log[t][i].result = [raised |-> FALSE, blocked |-> FALSE,
                                    confidence |-> 0]
            /\ log[t][i].outcome \in {"transport", "malformed"} =>
                /\ log[t][i].result.raised
                /\ i < Len(AdapterOrder) =>
                    \/ Len(log[t]) > i
                    \/ pc[t] = "query" /\ idx[t] = i + 1
        /\ pc[t] = "done" => ret[t].type = "verdict"

AdapterFailuresCaughtByAggregatorWitness ==
    \E t \in Callers :
        /\ pc[t] = "done"
        /\ Len(log[t]) = 3
        /\ log[t][1].outcome = "nokey"
        /\ log[t][2].outcome = "transport"
        /\ log[t][3].outcome = "status"

\* Every verdict the program holds: returned, cached or remembered.
HeldVerdicts ==
    {ret[t].value : t \in {u \in Callers : ret[u].type = "verdict"}}
    \cup {cache[a].verdict : a \in {b \in IPs : cache[b].present}}
    \cup {memo[i].result : i \in DOMAIN memo}

\* C9: in every verdict returned, cached or remembered the source is set
\* exactly when blocked is true, and a set source is a registered adapter.
SourceIffBlocked ==
    \A v \in HeldVerdicts :
        /\ (v.source # "None") <=> v.blocked
        /\ v.source # "None" => v.source \in AdapterNames

SourceIffBlockedWitness ==
    /\ \E a \in IPs : cache[a].present /\ cache[a].verdict.blocked
    /\ \E a \in IPs : cache[a].present /\ ~cache[a].verdict.blocked
    /\ \E t \in Callers : pc[t] = "done" /\ ret[t].value.blocked

\* C10: in every verdict returned, cached or remembered the confidence is
\* in 0..100, and it is 0 when blocked is false.
ConfidenceInRange ==
    \A v \in HeldVerdicts :
        /\ v.confidence \in 0..100
        /\ ~v.blocked => v.confidence = 0

\* The verdict the adapters after abuseipdb give in t's lookup.
RemainingVerdict(t) ==
    IF Len(log[t]) >= 2 /\ Blocking(t, 2)
    THEN [blocked |-> TRUE, source |-> "stopforumspam",
          confidence |-> log[t][2].result.confidence]
    ELSE IF Len(log[t]) >= 3 /\ Blocking(t, 3)
    THEN [blocked |-> TRUE, source |-> "blocklist_de",
          confidence |-> log[t][3].result.confidence]
    ELSE [blocked |-> FALSE, source |-> "None", confidence |-> 0]

\* C11: with the AbuseIPDB credential absent the abuseipdb adapter makes no
\* request, does not raise and returns (False, 0), and the verdict of the
\* lookup is the one stopforumspam, then blocklist_de give.
MissingCredentialSkips ==
    \A t \in Callers :
        ~api_key =>
            /\ \A i \in DOMAIN log[t] :
                log[t][i].source = "abuseipdb" =>
                    /\ log[t][i].reply.kind = "none"
                    /\ log[t][i].result = [raised |-> FALSE, blocked |-> FALSE,
                                           confidence |-> 0]
            /\ (pc[t] = "done" /\ Queried(t)) =>
                /\ Len(log[t]) >= 2
                /\ ret[t] = VerdictValue(RemainingVerdict(t))

MissingCredentialSkipsWitness ==
    \E t \in Callers :
        /\ ~api_key
        /\ pc[t] = "done"
        /\ Len(log[t]) = 3
        /\ log[t][1].outcome = "nokey"
        /\ ~Blocking(t, 2)
        /\ ret[t].value.source = "blocklist_de"

\* C12: with calls following one another, a completed lookup leaves a cache
\* entry for its IP whose verdict is the value returned; when the lookup
\* consulted the adapters the entry is the one it stored, blocking or not,
\* stamped with the time of that computation.
EveryMissIsStored ==
    \A t \in Callers :
        pc[t] = "done" =>
            /\ cache[ip[t]].present
            /\ ret[t] = VerdictValue(cache[ip[t]].verdict)
            /\ served[t] = "adapters" =>
                /\ Queried(t)
                /\ cache[ip[t]].time = computed[t]
                /\ started[t] <= computed[t] /\ computed[t] <= now

\* A non-blocking verdict overwrites the expired entry of an earlier lookup.
EveryMissIsStoredWitness ==
    \E t \in Callers :
        /\ pc[t] = "done"
        /\ served[t] = "adapters"
        /\ prev[ip[t]].present
        /\ prev[ip[t]].verdict.blocked
        /\ prev[ip[t]].time < cache[ip[t]].time
        /\ ~ret[t].value.blocked
        /\ cache[ip[t]].verdict = ret[t].value

\* C13: given a success reply with abuse score s, the abuseipdb adapter
\* reports blocked exactly when s > 75, with confidence s; a lookup whose
\* abuseipdb reply carries a score above 75 returns (True, 'abuseipdb', s),
\* and one with score 75 goes on to the next adapter.
AbuseScoreThreshold ==
    \A t \in Callers :
        (Queried(t) /\ log[t][1].reply.kind = "ok") =>
            LET s == log[t][1].reply.score IN
            /\ log[t][1].source = "abuseipdb"
            /\ log[t][1].result = [raised |-> FALSE, blocked |-> s > 75,
                                   confidence |-> s]
            /\ (pc[t] = "done" /\ s > 75) =>
                ret[t] = VerdictValue([blocked |-> TRUE, source |-> "abuseipdb",
                                       confidence |-> s])
            /\ (pc[t] = "done" /\ s <= 75) => Len(log[t]) >= 2

AbuseScoreThresholdWitness ==
    \E t \in Callers :
        /\ pc[t] = "done"
        /\ Len(log[t]) = 1
        /\ log[t][1].reply.kind = "ok"
        /\ log[t][1].reply.score = 85
        /\ ret[t].value = [blocked |-> TRUE, source |-> "abuseipdb",
                           confidence |-> 85]

\* min(100, 10 * f) written out
Capped(f) == IF 10 * f < 100 THEN 10 * f ELSE 100

\* The modelled texts that hold 'attacks:' and do not hold 'attacks: 0',
\* whatever the case of their letters: "Attacks: 3" and "attacks: 10".
ListedTexts == {TextThree, TextTen}

\* C17: given a success reply, stopforumspam reports blocked exactly when
\* 'appears' is above 0, with confidence min(100, 10 * frequency), and
\* blocklist_de reports blocked, with confidence 80, exactly when the text
\* holds 'attacks:' and does not hold 'attacks: 0'; for a non-success status
\* both return (False, 0).
ProviderScoring ==
    \A t \in Callers : \A i \in DOMAIN log[t] :
        LET e == log[t][i] IN
        /\ (e.source # "abuseipdb" /\ e.reply.kind = "status") =>
            e.result = [raised |-> FALSE, blocked |-> FALSE, confidence |-> 0]
        /\ (e.source = "stopforumspam" /\ e.reply.kind = "ok") =>
            e.result = [raised |-> FALSE, blocked |-> e.reply.appears > 0,
                        confidence |-> IF e.reply.appears > 0
                                       THEN Capped(e.reply.frequency) ELSE 0]
        /\ (e.source = "blocklist_de" /\ e.reply.kind = "ok") =>
            e.result = [raised |-> FALSE, blocked |-> e.reply.text \in ListedTexts,
                        confidence |-> IF e.reply.text \in ListedTexts
                                       THEN 80 ELSE 0]

\* stopforumspam answered a non-success status and blocklist_de "Attacks: 3".
ProviderScoringWitness ==
    \E t \in Callers :
        /\ pc[t] = "done"
        /\ Len(log[t]) = 3
        /\ log[t][2].reply.kind = "status"
        /\ log[t][3].reply.kind = "ok"
        /\ log[t][3].reply.text = TextThree
        /\ ret[t].value = [blocked |-> TRUE, source |-> "blocklist_de",
                           confidence |-> 80]

\* A step in which caller t's clear_cache empties the dict.
ClearStep(t) == pc[t] = "clear_dict" /\ pc'[t] = "clear_lru"
\* A step in which caller t's lookup stores the verdict it computed for a.
StoreStep(t, a) ==
    /\ ip[t] = a
    /\ pc[t] \in {"query", "store"}
    /\ pc'[t] = "wrapper"
    /\ cache'[a] = [present |-> TRUE, verdict |-> ret'[t].value, time |-> now]

\* C18: the cache entry of an IP changes only when clear_cache empties the
\* dict or when a lookup for that very IP stores the verdict it has just
\* computed: no lookup touches the entry of another IP, a lookup served from
\* the memo or from the cache leaves every entry, timestamp included, as it
\* was, and between two clears no cached IP is dropped. An entry is served
\* from the cache only within 24 hours of its computation.
LookupFrame ==
    /\ [][\A a \in IPs :
            cache'[a] # cache[a] =>
                \/ \E t \in Callers : ClearStep(t)
                \/ \E t \in Callers : StoreStep(t, a)]_vars
    /\ [](\A t \in Callers :
            (pc[t] = "done" /\ served[t] = "cache") =>
                /\ cache[ip[t]].time = computed[t]
                /\ started[t] - computed[t] < 24)

\* A lookup served from the cache 12 hours after the computation, with the
\* entry still carrying the time of the computation.
LookupFrameWitness ==
    \E t \in Callers :
        /\ pc[t] = "done"
        /\ served[t] = "cache"
        /\ started[t] > cache[ip[t]].time
        /\ cache[ip[t]].time = prev[ip[t]].time
        /\ \E a \in IPs \ {ip[t]} : cache[a].present

\* C14: every call of is_blacklisted terminates. A lookup past the memo
\* eventually returns a verdict, whatever the adapters do, and on its way it
\* consults no adapter twice.
LookupTerminates ==
    /\ \A t \in SeqCallers :
        (pc[t] \in {"check", "read", "query", "store", "wrapper"})
            ~> (pc[t] = "done" /\ ret[t].type = "verdict")
    /\ [](\A t \in Callers :
            /\ Len(log[t]) <= 3
            /\ \A i, j \in DOMAIN log[t] :
                log[t][i].source = log[t][j].source => i = j)

\* Every adapter raised and the lookup still returned.
LookupTerminatesWitness ==
    \E t \in Callers :
        /\ pc[t] = "done"
        /\ Len(log[t]) = 3
        /\ \A i \in DOMAIN log[t] : log[t][i].result.raised
        /\ ret[t].type = "verdict"

\* The verdict t's lookup computes from the answers it received: that of the
\* first adapter that reported a block, (False, None, 0) when none did.
OwnVerdict(t) ==
    IF \E i \in DOMAIN log[t] : Blocking(t, i)
    THEN LET i == CHOOSE j \in DOMAIN log[t] :
                      Blocking(t, j) /\ \A k \in 1..(j - 1) : ~Blocking(t, k)
         IN  Verdict(TRUE, log[t][i].source, log[t][i].result.confidence)
    ELSE NotBlacklisted

\* C15: a clear_cache that runs while a lookup stands between its cache check
\* and its store removes every entry the dict holds at that moment and leaves
\* the lookup as it was; the lookup goes on to return the verdict its own
\* adapter answers give and stores it, so that the dict can hold an entry
\* when that clear_cache returns.
ClearLeavesLookupAlone ==
    /\ [][\A c \in Callers :
            ClearStep(c) =>
                /\ \A a \in IPs : ~cache'[a].present
                /\ \A t \in Callers \ {c} :
                    <<pc[t], ip[t], idx[t], log[t], ret[t]>>'
                        = <<pc[t], ip[t], idx[t], log[t], ret[t]>>]_vars
    /\ [][\A t \in Callers :
            (overtaken[t] /\ pc[t] \in {"query", "store"} /\ pc'[t] = "wrapper") =>
                /\ ret'[t] = VerdictValue(OwnVerdict(t)')
                /\ cache'[ip[t]] = CacheEntry(OwnVerdict(t)', now)]_vars
    /\ [](\A t \in Callers :
            overtaken[t] =>
                /\ pc[t] \in {"query", "store", "wrapper", "done"}
                /\ pc[t] \in {"wrapper", "done"} =>
                    /\ served[t] = "adapters"
                    /\ ret[t] = VerdictValue(OwnVerdict(t)))

\* clear_cache removed an entry and is about to return; the lookup it
\* overtook has since stored and returned its verdict.
ClearLeavesLookupAloneWitness ==
    \E c, t \in Callers :
        /\ pc[c] = "cleared"
        /\ removed[c] > 0
        /\ overtaken[t]
        /\ pc[t] = "done"
        /\ cache[ip[t]].present
        /\ cache[ip[t]].verdict = ret[t].value

\* C16: when two overlapping lookups of one IP have both consulted the
\* adapters and both stored, the dict holds for that IP the entry of the one
\* that stored last, and each of the two returns the verdict its own adapter
\* answers give.
LastWriteWins ==
    \A t, u \in Callers :
        (/\ t # u
         /\ ip[t] = ip[u]
         /\ pc[t] \in {"wrapper", "done"} /\ served[t] = "adapters"
         /\ pc[u] \in {"wrapper", "done"} /\ served[u] = "adapters") =>
            /\ cache[ip[t]].present
            /\ lastwrite[ip[t]] \in {t, u}
            /\ cache[ip[t]].verdict = ret[lastwrite[ip[t]]].value
            /\ ret[t] = VerdictValue(OwnVerdict(t))
            /\ ret[u] = VerdictValue(OwnVerdict(u))

\* Both lookups completed with different verdicts; the dict holds that of
\* the second writer.
LastWriteWinsWitness ==
    \E t, u \in Callers :
        /\ t # u
        /\ ip[t] = ip[u]
        /\ pc[t] = "done" /\ served[t] = "adapters"
        /\ pc[u] = "done" /\ served[u] = "adapters"
        /\ ret[t].value.blocked /\ ~ret[u].value.blocked
        /\ lastwrite[ip[t]] = u
        /\ cache[ip[t]].verdict = ret[u].value

\* C19: outside the two statements of clear_cache, whenever the lru_cache
\* memo remembers a verdict for an IP the dict holds an entry for that IP
\* with the same verdict.
CachingLayersAgree ==
    (\A c \in Callers : pc[c] # "clear_lru") =>
        \A a \in MemoKeys(memo) :
            /\ cache[a].present
            /\ cache[a].verdict = MemoGet(memo, a)

====
